---- MODULE Spec2Model ----
(***************************************************************************)
(* Sleep-schedule web service (sleep.py): a FastAPI application whose      *)
(* handlers each open one sqlite3 connection and run SQL statements on    *)
(* the tables sleep_logs, history, sleep_recommendations and              *)
(* recommendation_history.                                                *)
(*                                                                         *)
(* Text is modelled as sequences of one-character strings, so that        *)
(* strptime, SQLite's LIKE and strftime, and the router's path matching   *)
(* are computed character by character.  A duration is kept in minutes:   *)
(* the code's float number of hours is minutes / 60.                      *)
(***************************************************************************)
EXTENDS Integers, Sequences, FiniteSets, TLC

VARIABLES
    sleep_logs,              \* set of rows [id, sleep_time, wake_time, duration]
    history,                 \* sequence of rows [sleep_time, wake_time, duration]
    sleep_recommendations,   \* set of rows [id, recommendation]
    recommendation_history,  \* sequence of recommendation texts
    open_connections,        \* connections opened by db_connection() and not closed
    last,                    \* the last completed request and its response
    workers                  \* the delete_sleep_log calls in progress in worker processes

vars == <<sleep_logs, history, sleep_recommendations, recommendation_history,
          open_connections, last, workers>>

-----------------------------------------------------------------------------
(* Text *)

Digits == <<"0","1","2","3","4","5","6","7","8","9">>

IsDigit(c) == \E i \in 1..10 : Digits[i] = c

DigitVal(c) == (CHOOSE i \in 1..10 : Digits[i] = c) - 1

IsSpace(c) == c = " "

\* The value of a non-empty run of decimal digits.
RECURSIVE DigitsVal(_)
DigitsVal(s) ==
    IF Len(s) = 0 THEN 0
    ELSE 10 * DigitsVal(SubSeq(s, 1, Len(s) - 1)) + DigitVal(s[Len(s)])

AllDigits(s) == Len(s) > 0 /\ \A i \in 1..Len(s) : IsDigit(s[i])

\* str(n) for n >= 0.
RECURSIVE str(_)
str(n) ==
    IF n < 10 THEN <<Digits[n + 1]>>
    ELSE str(n \div 10) \o <<Digits[(n % 10) + 1]>>

\* f"{n:02d}" for n >= 0.
Pad2(n) == IF n < 10 THEN <<"0">> \o str(n) ELSE str(n)

\* The first position at or after i that holds no digit (Len(s) + 1 if none).
RECURSIVE SkipDigits(_, _)
SkipDigits(s, i) ==
    IF i > Len(s) \/ ~IsDigit(s[i]) THEN i ELSE SkipDigits(s, i + 1)

\* The first position at or after i that holds no white space.
RECURSIVE SkipSpaces(_, _)
SkipSpaces(s, i) ==
    IF i > Len(s) \/ ~IsSpace(s[i]) THEN i ELSE SkipSpaces(s, i + 1)

IsPrefix(p, q) == Len(p) <= Len(q) /\ SubSeq(q, 1, Len(p)) = p

Lower == [c \in {"A","B","C","D","E","F","G","H","I","J","K","L","M",
                 "N","O","P","Q","R","S","T","U","V","W","X","Y","Z"} |->
            CASE c = "A" -> "a" [] c = "B" -> "b" [] c = "C" -> "c" [] c = "D" -> "d"
              [] c = "E" -> "e" [] c = "F" -> "f" [] c = "G" -> "g" [] c = "H" -> "h"
              [] c = "I" -> "i" [] c = "J" -> "j" [] c = "K" -> "k" [] c = "L" -> "l"
              [] c = "M" -> "m" [] c = "N" -> "n" [] c = "O" -> "o" [] c = "P" -> "p"
              [] c = "Q" -> "q" [] c = "R" -> "r" [] c = "S" -> "s" [] c = "T" -> "t"
              [] c = "U" -> "u" [] c = "V" -> "v" [] c = "W" -> "w" [] c = "X" -> "x"
              [] c = "Y" -> "y" [] c = "Z" -> "z"]

Fold(c) == IF c \in DOMAIN Lower THEN Lower[c] ELSE c

\* SQLite's LIKE (no ESCAPE): % matches any run of characters, _ any one
\* character, any other character itself, ASCII letters regardless of case.
RECURSIVE Like(_, _)
Like(pat, s) ==
    IF Len(pat) = 0 THEN Len(s) = 0
    ELSE IF Head(pat) = "%"
         THEN \E k \in 0..Len(s) : Like(Tail(pat), SubSeq(s, k + 1, Len(s)))
    ELSE IF Len(s) = 0 THEN FALSE
    ELSE IF Head(pat) = "_" THEN Like(Tail(pat), Tail(s))
    ELSE Fold(Head(pat)) = Fold(Head(s)) /\ Like(Tail(pat), Tail(s))

-----------------------------------------------------------------------------
(* Calendar, as in Python's datetime *)

IsLeap(y) == y % 4 = 0 /\ (y % 100 # 0 \/ y % 400 = 0)

DaysInMonth(y, m) ==
    IF m = 2 THEN (IF IsLeap(y) THEN 29 ELSE 28)
    ELSE IF m \in {4, 6, 9, 11} THEN 30 ELSE 31

DaysBeforeYear(y) ==
    (y - 1) * 365 + ((y - 1) \div 4) - ((y - 1) \div 100) + ((y - 1) \div 400)

RECURSIVE DaysBeforeMonth(_, _)
DaysBeforeMonth(y, m) ==
    IF m = 1 THEN 0 ELSE DaysBeforeMonth(y, m - 1) + DaysInMonth(y, m - 1)

\* datetime(y, m, d, ...) raises ValueError outside these ranges.
ValidDate(y, m, d) ==
    /\ y \in 1..9999
    /\ m \in 1..12
    /\ d >= 1 /\ d <= DaysInMonth(y, m)

toordinal(y, m, d) == DaysBeforeYear(y) + DaysBeforeMonth(y, m) + d

\* date.fromordinal(n): the ordinal split into 400-, 100-, 4- and 1-year
\* cycles, then the month estimated as (n + 50) >> 5 and corrected.
fromordinal(ordinal) ==
    LET n0   == ordinal - 1
        n400 == n0 \div 146097
        r400 == n0 % 146097
        n100 == r400 \div 36524
        r100 == r400 % 36524
        n4   == r100 \div 1461
        r4   == r100 % 1461
        n1   == r4 \div 365
        n    == r4 % 365
        year == n400 * 400 + 1 + n100 * 100 + n4 * 4 + n1
        estimate  == (n + 50) \div 32
        preceding == DaysBeforeMonth(year, estimate)
        month == IF preceding > n THEN estimate - 1 ELSE estimate
        before == DaysBeforeMonth(year, month)
    IN  IF n1 = 4 \/ n100 = 4
        THEN [year |-> year - 1, month |-> 12, day |-> 31]
        ELSE [year |-> year, month |-> month, day |-> n - before + 1]

NoTime == [ok |-> FALSE]

\* The parse of datetime.strptime(s, '%Y-%m-%d %H:%M'): four digits, then one or two
\* digits for each other field, a run of white space for the blank of the
\* format, nothing left over, and a date that exists.  NoTime is ValueError.
Parse(s) ==
    LET y2 == SkipDigits(s, 1)
        m1 == y2 + 1
        m2 == SkipDigits(s, m1)
        d1 == m2 + 1
        d2 == SkipDigits(s, d1)
        h1 == SkipSpaces(s, d2)
        h2 == SkipDigits(s, h1)
        n1 == h2 + 1
        n2 == SkipDigits(s, n1)
        Y  == DigitsVal(SubSeq(s, 1, y2 - 1))
        M  == DigitsVal(SubSeq(s, m1, m2 - 1))
        D  == DigitsVal(SubSeq(s, d1, d2 - 1))
        H  == DigitsVal(SubSeq(s, h1, h2 - 1))
        N  == DigitsVal(SubSeq(s, n1, n2 - 1))
        shaped ==
            /\ y2 - 1 = 4
            /\ y2 <= Len(s) /\ s[y2] = "-"
            /\ m2 - m1 \in {1, 2}
            /\ m2 <= Len(s) /\ s[m2] = "-"
            /\ d2 - d1 \in {1, 2}
            /\ h1 > d2
            /\ h2 - h1 \in {1, 2}
            /\ h2 <= Len(s) /\ s[h2] = ":"
            /\ n2 - n1 \in {1, 2}
            /\ n2 = Len(s) + 1
    IN  IF shaped /\ ValidDate(Y, M, D) /\ H <= 23 /\ N <= 59
        THEN [ok |-> TRUE, day |-> toordinal(Y, M, D), minute |-> 60 * H + N]
        ELSE NoTime

\* The times the requests carry: one as SQLite writes it, the time of the
\* next morning, that one again without the zero padding, and a day that
\* does not exist.
T_strict  == <<"2","0","2","4","-","0","2","-","2","8"," ","2","2",":","0","0">>
T_next    == <<"2","0","2","4","-","0","3","-","0","1"," ","0","6",":","3","0">>
T_lenient == <<"2","0","2","4","-","3","-","1"," ","6",":","3","0">>
T_invalid == <<"2","0","2","4","-","0","2","-","3","0"," ","0","8",":","0","0">>

\* What strptime makes of those texts, worked out once.
Parsed == [s \in {T_strict, T_next, T_lenient, T_invalid} |-> Parse(s)]

strptime(s) == IF s \in DOMAIN Parsed THEN Parsed[s] ELSE Parse(s)

\* (wake_time - sleep_time).total_seconds() / 3600, in minutes.
Elapsed(sleep, wake) == (wake.day - sleep.day) * 1440 + (wake.minute - sleep.minute)

\* A value fetched from a row: NULL, or Val(v).
NULL == [null |-> TRUE]

Val(v) == [v |-> v]

\* SQLite's reading of a time value 'YYYY-MM-DD HH:MM' (fixed widths), as
\* strftime('%Y', t) and strftime('%m', t) apply it: the year and the month,
\* or NULL for text that is no time value.  Every stored time passed
\* strptime, so its day exists and SQLite's normalisation leaves it alone.
sqlite_date(s) ==
    LET h1 == SkipSpaces(s, 11)
        shaped ==
            /\ Len(s) >= 10
            /\ AllDigits(SubSeq(s, 1, 4)) /\ s[5] = "-"
            /\ AllDigits(SubSeq(s, 6, 7)) /\ s[8] = "-"
            /\ AllDigits(SubSeq(s, 9, 10))
            /\ DigitsVal(SubSeq(s, 6, 7)) \in 1..12
            /\ DigitsVal(SubSeq(s, 9, 10)) \in 1..31
            /\ \/ Len(s) = 10
               \/ /\ h1 > 11
                  /\ Len(s) = h1 + 4
                  /\ AllDigits(SubSeq(s, h1, h1 + 1)) /\ s[h1 + 2] = ":"
                  /\ AllDigits(SubSeq(s, h1 + 3, h1 + 4))
                  /\ DigitsVal(SubSeq(s, h1, h1 + 1)) <= 24
                  /\ DigitsVal(SubSeq(s, h1 + 3, h1 + 4)) <= 59
    IN  IF shaped
        THEN [Y |-> SubSeq(s, 1, 4), m |-> SubSeq(s, 6, 7),
              H |-> IF Len(s) = 10 THEN <<"0", "0">> ELSE SubSeq(s, h1, h1 + 1)]
        ELSE NULL

-----------------------------------------------------------------------------
(* The store: what the SQL statements of the handlers compute *)

\* The state of the four tables.
Tables == [logs  |-> sleep_logs,
           hist  |-> history,
           recs  |-> sleep_recommendations,
           rhist |-> recommendation_history]

\* The id SQLite gives an inserted row that names none: the largest id of the
\* table plus one.
NewId(rows) ==
    IF rows = {} THEN 1
    ELSE (CHOOSE i \in {r.id : r \in rows} : \A r \in rows : r.id <= i) + 1

\* The rows of a table in storage order, as SELECT * returns them.
RECURSIVE InOrder(_)
InOrder(rows) ==
    IF rows = {} THEN <<>>
    ELSE LET r == CHOOSE x \in rows : \A y \in rows : x.id <= y.id
         IN  <<r>> \o InOrder(rows \ {r})

Elems(seq) == {seq[i] : i \in 1..Len(seq)}

\* SUM(duration), NULL over no rows.
RECURSIVE Total(_)
Total(rows) ==
    IF rows = {} THEN 0
    ELSE LET r == CHOOSE x \in rows : TRUE
         IN  r.duration + Total(rows \ {r})

SUM(rows) == IF rows = {} THEN NULL ELSE Val(Total(rows))

MAX(rows) ==
    IF rows = {} THEN NULL
    ELSE Val(CHOOSE d \in {r.duration : r \in rows} : \A r \in rows : r.duration <= d)

MIN(rows) ==
    IF rows = {} THEN NULL
    ELSE Val(CHOOSE d \in {r.duration : r \in rows} : \A r \in rows : d <= r.duration)

\* AVG(duration) as the exact fraction num / den, NULL over no rows.
AVG(rows) ==
    IF rows = {} THEN NULL
    ELSE Val([num |-> Total(rows), den |-> Cardinality(rows)])

\* Python's "x or 0" on a fetched number.
OrZero(x) == IF x = NULL THEN 0 ELSE x.v

\* Python's "x or 0" on a fetched average, as a fraction.
OrZeroFraction(x) == IF x = NULL THEN [num |-> 0, den |-> 1] ELSE x.v

\* WHERE strftime('%Y', sleep_time) = ? AND strftime('%m', sleep_time) = ?
InMonth(rows, year, month) ==
    {r \in rows : /\ sqlite_date(r.sleep_time) # NULL
                  /\ sqlite_date(r.sleep_time).Y = str(year)
                  /\ sqlite_date(r.sleep_time).m = Pad2(month)}

\* WHERE strftime('%Y', sleep_time) = ?
InYear(rows, year) ==
    {r \in rows : /\ sqlite_date(r.sleep_time) # NULL
                  /\ sqlite_date(r.sleep_time).Y = str(year)}

\* WHERE sleep_time LIKE ? with the parameter f"{date}%"
StartingWith(rows, date) == {r \in rows : Like(date \o <<"%">>, r.sleep_time)}

\* strftime('%H', t), NULL for text that is no time value.
HourOf(t) == IF sqlite_date(t) = NULL THEN NULL ELSE Val(sqlite_date(t).H)

-----------------------------------------------------------------------------
(* The handlers.  Each gives the outcome of one call: the HTTP status, the  *)
(* detail of an error, the returned value, the tables as the call leaves   *)
(* them and the number of connections it leaves open.                      *)

Out(status, detail, result, db, open) ==
    [status |-> status, detail |-> detail, result |-> result, db |-> db, open |-> open]

\* A JSON array of rows, and a JSON object holding a message.
Rows(seq) == [rows |-> seq]

Message(text) == [message |-> text]

\* An exception no handler catches: the server answers 500.
Unhandled == "Internal Server Error"

\* @app.post("/sleep_logs"), storing the client's own duration.
add_sleep_log_trusting(log) ==
    LET sleep_time == strptime(log.sleep_time)
        wake_time  == strptime(log.wake_time)
        row == [id |-> NewId(sleep_logs), sleep_time |-> log.sleep_time,
                wake_time |-> log.wake_time, duration |-> log.duration]
    IN  IF ~sleep_time.ok \/ ~wake_time.ok
        THEN Out(500, Unhandled, NULL, Tables, 0)
        ELSE Out(200, "", Message("Sleep log added successfully!"),
                 [Tables EXCEPT !.logs = @ \cup {row}], 0)

\* @app.post("/sleep_logs").  strptime runs before the connection is opened
\* and outside the try: its ValueError is caught by nobody.
add_sleep_log(log) ==
    LET sleep_time == strptime(log.sleep_time)
        wake_time  == strptime(log.wake_time)
    IN  IF ~sleep_time.ok \/ ~wake_time.ok
        THEN Out(500, Unhandled, NULL, Tables, 0)
        ELSE LET row == [id |-> NewId(sleep_logs), sleep_time |-> log.sleep_time,
                         wake_time |-> log.wake_time,
                         duration |-> Elapsed(sleep_time, wake_time)]
             IN  Out(200, "", Message("Sleep log added successfully!"),
                     [Tables EXCEPT !.logs = @ \cup {row}], 0)

\* @app.get("/sleep_logs")
get_all_sleep_logs ==
    Out(200, "", Rows(InOrder(sleep_logs)), Tables, 0)

\* @app.get("/sleep_logs/{date}"), comparing with = instead of LIKE.
get_sleep_logs_by_date_equal(date) ==
    Out(200, "", Rows(InOrder({r \in sleep_logs : r.sleep_time = date})), Tables, 0)

\* @app.get("/sleep_logs/{date}")
get_sleep_logs_by_date(date) ==
    Out(200, "", Rows(InOrder(StartingWith(sleep_logs, date))), Tables, 0)

\* @app.put("/sleep_logs/{log_id}").  The HTTPException(404) and the
\* ValueError of strptime are both raised inside the try, whose
\* "except Exception" turns each into a 500 carrying str(e).
update_sleep_log(log_id, log) ==
    IF ~\E r \in sleep_logs : r.id = log_id
    THEN Out(500, "404: Sleep log not found", NULL, Tables, 0)
    ELSE LET sleep_time == strptime(log.sleep_time)
             wake_time  == strptime(log.wake_time)
         IN  IF ~sleep_time.ok \/ ~wake_time.ok
             THEN Out(500, "time data does not match format", NULL, Tables, 0)
             ELSE LET row == [id |-> log_id, sleep_time |-> log.sleep_time,
                              wake_time |-> log.wake_time,
                              duration |-> Elapsed(sleep_time, wake_time)]
                  IN  Out(200, "", Message("Sleep log updated successfully!"),
                          [Tables EXCEPT !.logs = {r \in @ : r.id # log_id} \cup {row}], 0)

Archived(r) == [sleep_time |-> r.sleep_time, wake_time |-> r.wake_time,
                duration |-> r.duration]

\* @app.delete("/sleep_logs/{log_id}"), archiving nothing.
delete_sleep_log_unarchived(log_id) ==
    IF ~\E r \in sleep_logs : r.id = log_id
    THEN Out(500, "'NoneType' object is not subscriptable", NULL, Tables, 0)
    ELSE Out(200, "", Message("Sleep log deleted successfully!"),
             [Tables EXCEPT !.logs = {r \in @ : r.id # log_id}], 0)

\* @app.delete("/sleep_logs/{log_id}"), run without interruption.  With no
\* such row fetchone() gives None and history[1] raises TypeError.
delete_sleep_log(log_id) ==
    IF ~\E r \in sleep_logs : r.id = log_id
    THEN Out(500, "'NoneType' object is not subscriptable", NULL, Tables, 0)
    ELSE LET row == CHOOSE r \in sleep_logs : r.id = log_id
         IN  Out(200, "", Message("Sleep log deleted successfully!"),
                 [Tables EXCEPT !.hist = Append(@, Archived(row)),
                                !.logs = {r \in @ : r.id # log_id}], 0)

\* @app.get("/sleep_logs/average_duration")
get_average_sleep_duration ==
    Out(200, "", [average_sleep_duration |-> OrZeroFraction(AVG(sleep_logs))], Tables, 0)

\* The groups of GROUP BY hour with their counts.
HourGroups(times) ==
    {[hour |-> h, count |-> Cardinality({i \in DOMAIN times : HourOf(times[i]) = h})] :
        h \in {HourOf(times[i]) : i \in DOMAIN times}}

\* ORDER BY count DESC LIMIT 1: any group of the largest count.
MostFrequent(times) ==
    {g \in HourGroups(times) : \A o \in HourGroups(times) : o.count <= g.count}

SleepTimes == [id \in {r.id : r \in sleep_logs} |->
                 (CHOOSE r \in sleep_logs : r.id = id).sleep_time]

WakeTimes == [id \in {r.id : r \in sleep_logs} |->
                (CHOOSE r \in sleep_logs : r.id = id).wake_time]

\* @app.get("/sleep_logs/frequent_sleep_time"): with no rows fetchone()
\* gives None and the subscript raises TypeError, caught by nobody.
get_frequent_sleep_time ==
    IF sleep_logs = {} THEN {Out(500, Unhandled, NULL, Tables, 0)}
    ELSE {Out(200, "", [frequent_sleep_hour |-> g.hour, count |-> g.count], Tables, 0) :
            g \in MostFrequent(SleepTimes)}

\* @app.get("/sleep_logs/frequent_wake_time")
get_frequent_wake_time ==
    IF sleep_logs = {} THEN {Out(500, Unhandled, NULL, Tables, 0)}
    ELSE {Out(200, "", [frequent_wake_hour |-> g.hour, count |-> g.count], Tables, 0) :
            g \in MostFrequent(WakeTimes)}

\* @app.get("/sleep_logs/longest_sleep")
get_longest_sleep_duration ==
    Out(200, "", [longest_sleep_duration |-> OrZero(MAX(sleep_logs))], Tables, 0)

\* @app.get("/sleep_logs/shortest_sleep")
get_shortest_sleep_duration ==
    Out(200, "", [shortest_sleep_duration |-> OrZero(MIN(sleep_logs))], Tables, 0)

\* @app.get("/sleep_logs/month/{year}/{month}")
get_sleep_logs_by_month(year, month) ==
    Out(200, "", Rows(InOrder(InMonth(sleep_logs, year, month))), Tables, 0)

\* @app.get("/sleep_logs/year/{year}")
get_sleep_logs_by_year(year) ==
    Out(200, "", Rows(InOrder(InYear(sleep_logs, year))), Tables, 0)

\* @app.post("/sleep_goals/monthly_sleep_goal").  The connection is opened
\* first and closed on no path.  datetime(year, month + 1, 1) raises
\* ValueError for month 12, caught by nobody.  hours_per_night is in hours,
\* the two totals in minutes.
set_monthly_sleep_goal(goal) ==
    IF ~ValidDate(goal.year, goal.month + 1, 1)
    THEN Out(500, Unhandled, NULL, Tables, 1)
    ELSE LET days_in_month ==
                 fromordinal(toordinal(goal.year, goal.month + 1, 1) - 1).day
             total_hours_required == 60 * goal.hours_per_night * days_in_month
             total_logged_sleep ==
                 OrZero(SUM(InMonth(sleep_logs, goal.year, goal.month)))
             message == IF total_logged_sleep >= total_hours_required
                        THEN "You achieved your goal"
                        ELSE "You didn't sleep well this month"
         IN  Out(200, "", [message |-> message,
                           total_logged_sleep |-> total_logged_sleep,
                           total_required_sleep |-> total_hours_required],
                 Tables, 1)

\* @app.get("/sleep_logs/summary/{date}").  DailySleepSummary declares no
\* average_duration, so the response carries none.
get_daily_sleep_summary(date) ==
    LET rows == StartingWith(sleep_logs, date)
    IN  Out(200, "", [date |-> date, total_duration |-> OrZero(SUM(rows)),
                      log_count |-> Cardinality(rows)], Tables, 0)

\* @app.get("sleep_logs/history")
get_history ==
    Out(200, "", Rows(history), Tables, 0)

\* @app.post("/recommendations")
add_recommendations(recommendation) ==
    Out(200, "", Message("Recommendation added successfully"),
        [Tables EXCEPT !.recs = @ \cup {[id |-> NewId(sleep_recommendations),
                                         recommendation |-> recommendation]}], 0)

\* @app.get("/recommendations")
recommendation_list ==
    Out(200, "", Rows(InOrder(sleep_recommendations)), Tables, 0)

\* @app.put("/recommendations/{recommendation_id}"): the HTTPException(404)
\* is raised inside the try and caught by its "except Exception".
update_recommendation(recommendation_id, new_recommendation) ==
    IF ~\E r \in sleep_recommendations : r.id = recommendation_id
    THEN Out(500, "Error: 404: Recommendation not found", NULL, Tables, 0)
    ELSE Out(200, "", Message("Recommendation updated successfully"),
             [Tables EXCEPT !.recs = {r \in @ : r.id # recommendation_id}
                               \cup {[id |-> recommendation_id,
                                      recommendation |-> new_recommendation]}], 0)

\* @app.delete("/recommendations/{recommendation_id}"): with no such row
\* fetchone() gives None and rec[1] raises TypeError before the DELETE.
delete_recommendation(recommendation_id) ==
    IF ~\E r \in sleep_recommendations : r.id = recommendation_id
    THEN Out(500, "Error: 'NoneType' object is not subscriptable", NULL, Tables, 0)
    ELSE LET rec == CHOOSE r \in sleep_recommendations : r.id = recommendation_id
         IN  Out(200, "", Message("Recommendation deleted successfully"),
                 [Tables EXCEPT !.rhist = Append(@, rec.recommendation),
                                !.recs = {r \in @ : r.id # recommendation_id}], 0)

\* @app.get("/recommendations/history")
get_recommendation_history ==
    Out(200, "", Rows(recommendation_history), Tables, 0)

-----------------------------------------------------------------------------
(* The router: the routes in the order the decorators register them.  A    *)
(* path is the sequence of its segments.                                   *)

sleep_logs_ == <<"s","l","e","e","p","_","l","o","g","s">>
average_duration_ == <<"a","v","e","r","a","g","e","_","d","u","r","a","t","i","o","n">>
frequent_sleep_time_ == <<"f","r","e","q","u","e","n","t","_","s","l","e","e","p","_","t","i","m","e">>
frequent_wake_time_ == <<"f","r","e","q","u","e","n","t","_","w","a","k","e","_","t","i","m","e">>
longest_sleep_ == <<"l","o","n","g","e","s","t","_","s","l","e","e","p">>
shortest_sleep_ == <<"s","h","o","r","t","e","s","t","_","s","l","e","e","p">>
month_ == <<"m","o","n","t","h">>
year_ == <<"y","e","a","r">>
sleep_goals_ == <<"s","l","e","e","p","_","g","o","a","l","s">>
monthly_sleep_goal_ == <<"m","o","n","t","h","l","y","_","s","l","e","e","p","_","g","o","a","l">>
summary_ == <<"s","u","m","m","a","r","y">>
history_ == <<"h","i","s","t","o","r","y">>
recommendations_ == <<"r","e","c","o","m","m","e","n","d","a","t","i","o","n","s">>

Lit(text) == [lit |-> text]

Param == [param |-> TRUE]

Route(method, rooted, pattern, endpoint) ==
    [method |-> method, rooted |-> rooted, pattern |-> pattern, endpoint |-> endpoint]

Routes == <<
    Route("POST",   TRUE,  <<Lit(sleep_logs_)>>, "add_sleep_log"),
    Route("GET",    TRUE,  <<Lit(sleep_logs_)>>, "get_all_sleep_logs"),
    Route("GET",    TRUE,  <<Lit(sleep_logs_), Param>>, "get_sleep_logs_by_date"),
    Route("PUT",    TRUE,  <<Lit(sleep_logs_), Param>>, "update_sleep_log"),
    Route("DELETE", TRUE,  <<Lit(sleep_logs_), Param>>, "delete_sleep_log"),
    Route("GET",    TRUE,  <<Lit(sleep_logs_), Lit(average_duration_)>>,
          "get_average_sleep_duration"),
    Route("GET",    TRUE,  <<Lit(sleep_logs_), Lit(frequent_sleep_time_)>>,
          "get_frequent_sleep_time"),
    Route("GET",    TRUE,  <<Lit(sleep_logs_), Lit(frequent_wake_time_)>>,
          "get_frequent_wake_time"),
    Route("GET",    TRUE,  <<Lit(sleep_logs_), Lit(longest_sleep_)>>,
          "get_longest_sleep_duration"),
    Route("GET",    TRUE,  <<Lit(sleep_logs_), Lit(shortest_sleep_)>>,
          "get_shortest_sleep_duration"),
    Route("GET",    TRUE,  <<Lit(sleep_logs_), Lit(month_), Param, Param>>,
          "get_sleep_logs_by_month"),
    Route("GET",    TRUE,  <<Lit(sleep_logs_), Lit(year_), Param>>,
          "get_sleep_logs_by_year"),
    Route("POST",   TRUE,  <<Lit(sleep_goals_), Lit(monthly_sleep_goal_)>>,
          "set_monthly_sleep_goal"),
    Route("GET",    TRUE,  <<Lit(sleep_logs_), Lit(summary_), Param>>,
          "get_daily_sleep_summary"),
    Route("GET",    FALSE, <<Lit(sleep_logs_), Lit(history_)>>, "get_history"),
    Route("POST",   TRUE,  <<Lit(recommendations_)>>, "add_recommendations"),
    Route("GET",    TRUE,  <<Lit(recommendations_)>>, "recommendation_list"),
    Route("PUT",    TRUE,  <<Lit(recommendations_), Param>>, "update_recommendation"),
    Route("DELETE", TRUE,  <<Lit(recommendations_), Param>>, "delete_recommendation"),
    Route("GET",    TRUE,  <<Lit(recommendations_), Lit(history_)>>,
          "get_recommendation_history") >>

\* Whether a request path, which always starts with "/", matches the
\* route's path: a literal segment by equality, a parameter any non-empty
\* segment.  A route path without the leading "/" matches no request.
PathMatches(route, path) ==
    /\ route.rooted
    /\ Len(route.pattern) = Len(path)
    /\ \A i \in 1..Len(path) :
          IF "lit" \in DOMAIN route.pattern[i]
          THEN route.pattern[i].lit = path[i]
          ELSE Len(path[i]) > 0

\* The values of the path parameters, in order.
RECURSIVE PathParams(_, _)
PathParams(pattern, path) ==
    IF Len(pattern) = 0 THEN <<>>
    ELSE (IF "lit" \in DOMAIN Head(pattern) THEN <<>> ELSE <<Head(path)>>)
         \o PathParams(Tail(pattern), Tail(path))

\* The router's loop over the routes from the i-th on: the first route
\* matching path and method is called; failing that the answer is 405 if
\* some route matched the path alone (partial), else 404.
RECURSIVE Scan(_, _, _, _)
Scan(i, method, path, partial) ==
    IF i > Len(Routes)
    THEN [endpoint |-> IF partial THEN "405" ELSE "404", params |-> <<>>]
    ELSE IF ~PathMatches(Routes[i], path) THEN Scan(i + 1, method, path, partial)
    ELSE IF Routes[i].method # method THEN Scan(i + 1, method, path, TRUE)
    ELSE [endpoint |-> Routes[i].endpoint,
          params |-> PathParams(Routes[i].pattern, path)]

Dispatch(method, path) == Scan(1, method, path, FALSE)

\* Whether every path parameter declared int holds an integer.
IntParams(params) == \A i \in 1..Len(params) : AllDigits(params[i])

\* The possible outcomes of calling endpoint e with the path parameters p
\* converted as its signature declares (a segment that is no integer where
\* one is declared is refused with 422) and the body or query value arg.
Invoke(e, p, arg) ==
    LET refused == {Out(422, "Unprocessable Entity", NULL, Tables, 0)}
    IN  CASE e = "add_sleep_log" -> {add_sleep_log(arg)}
          [] e = "get_all_sleep_logs" -> {get_all_sleep_logs}
          [] e = "get_sleep_logs_by_date" -> {get_sleep_logs_by_date(p[1])}
          [] e = "update_sleep_log" ->
                IF IntParams(p) THEN {update_sleep_log(DigitsVal(p[1]), arg)} ELSE refused
          [] e = "delete_sleep_log" ->
                IF IntParams(p) THEN {delete_sleep_log(DigitsVal(p[1]))} ELSE refused
          [] e = "get_average_sleep_duration" -> {get_average_sleep_duration}
          [] e = "get_frequent_sleep_time" -> get_frequent_sleep_time
          [] e = "get_frequent_wake_time" -> get_frequent_wake_time
          [] e = "get_longest_sleep_duration" -> {get_longest_sleep_duration}
          [] e = "get_shortest_sleep_duration" -> {get_shortest_sleep_duration}
          [] e = "get_sleep_logs_by_month" ->
                IF IntParams(p)
                THEN {get_sleep_logs_by_month(DigitsVal(p[1]), DigitsVal(p[2]))}
                ELSE refused
          [] e = "get_sleep_logs_by_year" ->
                IF IntParams(p) THEN {get_sleep_logs_by_year(DigitsVal(p[1]))} ELSE refused
          [] e = "set_monthly_sleep_goal" -> {set_monthly_sleep_goal(arg)}
          [] e = "get_daily_sleep_summary" -> {get_daily_sleep_summary(p[1])}
          [] e = "get_history" -> {get_history}
          [] e = "add_recommendations" -> {add_recommendations(arg)}
          [] e = "recommendation_list" -> {recommendation_list}
          [] e = "update_recommendation" ->
                IF IntParams(p) THEN {update_recommendation(DigitsVal(p[1]), arg)}
                ELSE refused
          [] e = "delete_recommendation" ->
                IF IntParams(p) THEN {delete_recommendation(DigitsVal(p[1]))} ELSE refused
          [] e = "get_recommendation_history" -> {get_recommendation_history}
          [] e = "405" -> {Out(405, "Method Not Allowed", NULL, Tables, 0)}
          [] OTHER -> {Out(404, "Not Found", NULL, Tables, 0)}

\* The possible outcomes of a request: those of the endpoint the router picks.
Call(method, path, arg) ==
    Invoke(Dispatch(method, path).endpoint, Dispatch(method, path).params, arg)

-----------------------------------------------------------------------------
(* Bounds and the requests clients send *)

MaxId == 2
MaxHistory == 2
MaxUnclosed == 1

\* Request bodies of POST and PUT /sleep_logs: two that parse, two that do not.
SleepLogs ==
    {[sleep_time |-> sw[1], wake_time |-> sw[2], duration |-> 480] :
        sw \in {<<T_strict, T_next>>, <<T_lenient, T_strict>>,
                <<T_invalid, T_next>>, <<T_strict, T_invalid>>}}

Ids == 1..(MaxId + 1)

DateSegments == {<<"2","0","2","4">>,
                 <<"2","0","2","4","-","0","2">>,
                 <<"2","0","2","4","-","0","2","-","2","8">>,
                 <<"2","0","2","4","-","3">>}

NameSegments == {average_duration_, longest_sleep_, shortest_sleep_,
                 frequent_sleep_time_, frequent_wake_time_, history_}

SleepGoals == [year : {2023, 2024}, month : 1..12, hours_per_night : {1, 8}]

Texts == {"Avoid caffeine", "Keep a schedule"}

WithinBounds(o) ==
    /\ \A r \in o.db.logs : r.id <= MaxId
    /\ \A r \in o.db.recs : r.id <= MaxId
    /\ Len(o.db.hist) <= MaxHistory
    /\ Len(o.db.rhist) <= MaxHistory
    /\ open_connections + o.open <= MaxUnclosed

-----------------------------------------------------------------------------
(* One server process: a request runs from its first statement to its     *)
(* response before the next begins, the handlers being coroutines that    *)
(* never await.                                                           *)

NoRequest == [method |-> "", path |-> <<>>, arg |-> NULL,
              status |-> 0, detail |-> "", result |-> NULL]

Init ==
    /\ sleep_logs = {}
    /\ history = <<>>
    /\ sleep_recommendations = {}
    /\ recommendation_history = <<>>
    /\ open_connections = 0
    /\ last = NoRequest
    /\ workers = <<>>

\* No worker processes: the one server process handles every request.
SingleProcess == workers = <<>>

Serve(method, path, arg) ==
    \E o \in Call(method, path, arg) :
        /\ WithinBounds(o)
        /\ sleep_logs' = o.db.logs
        /\ history' = o.db.hist
        /\ sleep_recommendations' = o.db.recs
        /\ recommendation_history' = o.db.rhist
        /\ open_connections' = open_connections + o.open
        /\ last' = [method |-> method, path |-> path, arg |-> arg,
                    status |-> o.status, detail |-> o.detail, result |-> o.result]
        /\ UNCHANGED workers

PostSleepLogs ==
    /\ SingleProcess
    /\ \E log \in SleepLogs : Serve("POST", <<sleep_logs_>>, log)

GetSleepLogs ==
    /\ SingleProcess
    /\ Serve("GET", <<sleep_logs_>>, NULL)

GetSleepLogsDate ==
    /\ SingleProcess
    /\ \E date \in DateSegments : Serve("GET", <<sleep_logs_, date>>, NULL)

GetSleepLogsName ==
    /\ SingleProcess
    /\ \E name \in NameSegments : Serve("GET", <<sleep_logs_, name>>, NULL)

PutSleepLogs ==
    /\ SingleProcess
    /\ \E id \in Ids, log \in SleepLogs : Serve("PUT", <<sleep_logs_, str(id)>>, log)

DeleteSleepLogs ==
    /\ SingleProcess
    /\ \E id \in Ids : Serve("DELETE", <<sleep_logs_, str(id)>>, NULL)

GetSleepLogsMonth ==
    /\ SingleProcess
    /\ \E m \in {2, 3} : Serve("GET", <<sleep_logs_, month_, str(2024), str(m)>>, NULL)

GetSleepLogsYear ==
    /\ SingleProcess
    /\ Serve("GET", <<sleep_logs_, year_, str(2024)>>, NULL)

GetSleepLogsSummary ==
    /\ SingleProcess
    /\ \E date \in DateSegments : Serve("GET", <<sleep_logs_, summary_, date>>, NULL)

PostMonthlySleepGoal ==
    /\ SingleProcess
    /\ \E goal \in SleepGoals : Serve("POST", <<sleep_goals_, monthly_sleep_goal_>>, goal)

PostRecommendations ==
    /\ SingleProcess
    /\ \E text \in Texts : Serve("POST", <<recommendations_>>, text)

GetRecommendations ==
    /\ SingleProcess
    /\ Serve("GET", <<recommendations_>>, NULL)

PutRecommendations ==
    /\ SingleProcess
    /\ \E id \in Ids, text \in Texts : Serve("PUT", <<recommendations_, str(id)>>, text)

DeleteRecommendations ==
    /\ SingleProcess
    /\ \E id \in Ids : Serve("DELETE", <<recommendations_, str(id)>>, NULL)

GetRecommendationsHistory ==
    /\ SingleProcess
    /\ Serve("GET", <<recommendations_, history_>>, NULL)

\* The runtime finalises a connection object nobody closed, some time after
\* the last reference to it is gone.
Finalize ==
    /\ SingleProcess
    /\ open_connections > 0
    /\ open_connections' = open_connections - 1
    /\ UNCHANGED <<sleep_logs, history, sleep_recommendations,
                   recommendation_history, last, workers>>

-----------------------------------------------------------------------------
(* The sleep-log endpoints *)

Next ==
    \/ PostSleepLogs
    \/ GetSleepLogs
    \/ GetSleepLogsDate
    \/ GetSleepLogsName
    \/ PutSleepLogs
    \/ DeleteSleepLogs
    \/ GetSleepLogsMonth
    \/ GetSleepLogsYear
    \/ GetSleepLogsSummary

Spec == Init /\ [][Next]_vars

(* The monthly goal, over logs that come and go *)

NextGoal ==
    \/ PostSleepLogs
    \/ DeleteSleepLogs
    \/ PostMonthlySleepGoal
    \/ Finalize

SpecGoal == Init /\ [][NextGoal]_vars

(* The recommendation endpoints *)

NextRecommendations ==
    \/ PostRecommendations
    \/ GetRecommendations
    \/ PutRecommendations
    \/ DeleteRecommendations
    \/ GetRecommendationsHistory

SpecRecommendations == Init /\ [][NextRecommendations]_vars

-----------------------------------------------------------------------------
(* Several server processes: delete_sleep_log statement by statement, each *)
(* call on its own connection.  SQLite lets one connection write at a     *)
(* time; what it wrote shows to the others when it commits.               *)

Workers == {"w1", "w2"}

Idle == [pc |-> "idle", log_id |-> 0, fetched |-> NULL, writing |-> FALSE,
         rowcount |-> 0, status |-> 0, detail |-> "", archived |-> 0, removed |-> 0]

InitWorkers ==
    /\ sleep_logs = {}
    /\ history = <<>>
    /\ sleep_recommendations = {}
    /\ recommendation_history = <<>>
    /\ open_connections = 0
    /\ last = NoRequest
    /\ workers = [w \in Workers |-> Idle]

Busy == {w \in Workers : workers[w].pc # "idle"}

Writer == {w \in Workers : workers[w].writing}

\* A log is added by a request that runs to its end while nobody writes.
WorkersPostSleepLogs ==
    /\ Writer = {}
    /\ \E log \in SleepLogs :
        \E o \in Call("POST", <<sleep_logs_>>, log) :
            /\ WithinBounds(o)
            /\ sleep_logs' = o.db.logs
            /\ last' = [method |-> "POST", path |-> <<sleep_logs_>>, arg |-> log,
                        status |-> o.status, detail |-> o.detail, result |-> o.result]
            /\ UNCHANGED <<history, sleep_recommendations, recommendation_history,
                           open_connections, workers>>

\* connection = db_connection()
Begin(w) ==
    /\ workers[w].pc = "idle"
    /\ Len(history) + Cardinality(Busy) < MaxHistory
    /\ \E id \in Ids :
        workers' = [workers EXCEPT ![w] = [Idle EXCEPT !.pc = "select", !.log_id = id]]
    /\ open_connections' = open_connections + 1
    /\ UNCHANGED <<sleep_logs, history, sleep_recommendations, recommendation_history, last>>

\* cursor.execute("SELECT * FROM sleep_logs where id = ?"); cursor.fetchone()
Select(w) ==
    /\ workers[w].pc = "select"
    /\ workers' = [workers EXCEPT ![w].pc = "insert",
                                  ![w].fetched =
                                      IF \E r \in sleep_logs : r.id = workers[w].log_id
                                      THEN Val(CHOOSE r \in sleep_logs : r.id = workers[w].log_id)
                                      ELSE NULL]
    /\ UNCHANGED <<sleep_logs, history, sleep_recommendations, recommendation_history,
                   open_connections, last>>

\* cursor.execute("INSERT INTO history ..."): TypeError on history[1] when
\* nothing was fetched; else the statement opens the write transaction.
Insert(w) ==
    /\ workers[w].pc = "insert"
    /\ \/ /\ workers[w].fetched = NULL
          /\ workers' = [workers EXCEPT ![w].pc = "except",
                            ![w].detail = "'NoneType' object is not subscriptable"]
       \/ /\ workers[w].fetched # NULL
          /\ Writer = {}
          /\ workers' = [workers EXCEPT ![w].pc = "delete", ![w].writing = TRUE]
    /\ UNCHANGED <<sleep_logs, history, sleep_recommendations, recommendation_history,
                   open_connections, last>>

\* The INSERT finds another connection writing for longer than the
\* connection's timeout: sqlite3.OperationalError.
InsertTimesOut(w) ==
    /\ workers[w].pc = "insert"
    /\ workers[w].fetched # NULL
    /\ Writer \ {w} # {}
    /\ workers' = [workers EXCEPT ![w].pc = "except", ![w].detail = "database is locked"]
    /\ UNCHANGED <<sleep_logs, history, sleep_recommendations, recommendation_history,
                   open_connections, last>>

\* cursor.execute("DELETE FROM sleep_logs WHERE id = ?"), which sets rowcount.
Delete(w) ==
    /\ workers[w].pc = "delete"
    /\ workers' = [workers EXCEPT ![w].pc = "commit",
                      ![w].rowcount =
                          Cardinality({r \in sleep_logs : r.id = workers[w].log_id})]
    /\ UNCHANGED <<sleep_logs, history, sleep_recommendations, recommendation_history,
                   open_connections, last>>

\* connection.commit(): the inserted history row and the deletion take effect.
Commit(w) ==
    /\ workers[w].pc = "commit"
    /\ history' = Append(history, Archived(workers[w].fetched.v))
    /\ sleep_logs' = {r \in sleep_logs : r.id # workers[w].log_id}
    /\ workers' = [workers EXCEPT ![w].pc = "check", ![w].writing = FALSE,
                      ![w].archived = 1, ![w].removed = workers[w].rowcount]
    /\ UNCHANGED <<sleep_recommendations, recommendation_history, open_connections, last>>

\* if cursor.rowcount == 0: raise HTTPException(404); else return the message.
Check(w) ==
    /\ workers[w].pc = "check"
    /\ workers' = IF workers[w].rowcount = 0
                  THEN [workers EXCEPT ![w].pc = "except",
                                       ![w].detail = "404: Sleep log not found"]
                  ELSE [workers EXCEPT ![w].pc = "finally", ![w].status = 200]
    /\ UNCHANGED <<sleep_logs, history, sleep_recommendations, recommendation_history,
                   open_connections, last>>

\* except Exception: connection.rollback(); raise HTTPException(500, str(e))
Except(w) ==
    /\ workers[w].pc = "except"
    /\ workers' = [workers EXCEPT ![w].pc = "finally", ![w].writing = FALSE,
                                  ![w].status = 500]
    /\ UNCHANGED <<sleep_logs, history, sleep_recommendations, recommendation_history,
                   open_connections, last>>

\* finally: connection.close(), and the response goes out.
Finally(w) ==
    /\ workers[w].pc = "finally"
    /\ open_connections' = open_connections - 1
    /\ last' = [method |-> "DELETE", path |-> <<sleep_logs_, str(workers[w].log_id)>>,
                arg |-> NULL, status |-> workers[w].status, detail |-> workers[w].detail,
                result |-> IF workers[w].status = 200
                           THEN Message("Sleep log deleted successfully!") ELSE NULL]
    /\ workers' = [workers EXCEPT ![w] = Idle]
    /\ UNCHANGED <<sleep_logs, history, sleep_recommendations, recommendation_history>>

NextWorkers ==
    \/ WorkersPostSleepLogs
    \/ \E w \in Workers : Begin(w)
    \/ \E w \in Workers : Select(w)
    \/ \E w \in Workers : Insert(w)
    \/ \E w \in Workers : InsertTimesOut(w)
    \/ \E w \in Workers : Delete(w)
    \/ \E w \in Workers : Commit(w)
    \/ \E w \in Workers : Check(w)
    \/ \E w \in Workers : Except(w)
    \/ \E w \in Workers : Finally(w)

SpecWorkers == InitWorkers /\ [][NextWorkers]_vars

-----------------------------------------------------------------------------
(* Properties *)

LogLive(id) == \E r \in sleep_logs : r.id = id

LogRow(id) == CHOOSE r \in sleep_logs : r.id = id

Parses(log) == strptime(log.sleep_time).ok /\ strptime(log.wake_time).ok

\* C1: a DELETE /sleep_logs/{log_id} for an id present in sleep_logs
\* succeeds, removes exactly that row and appends exactly one entry to
\* history, holding the row's sleep_time, wake_time and duration; the other
\* rows and the earlier history entries stay as they were.
C1_DeleteArchivesTheRow ==
    [][\A id \in Ids :
          (/\ last'.method = "DELETE"
           /\ last'.path = <<sleep_logs_, str(id)>>
           /\ LogLive(id))
          => /\ last'.status = 200
             /\ sleep_logs' = sleep_logs \ {LogRow(id)}
             /\ \A r \in sleep_logs' : r.id # id
             /\ history' = Append(history, Archived(LogRow(id)))]_vars

\* A delete has succeeded leaving another row live and with an earlier entry
\* in history.
C1_Witness ==
    /\ last.method = "DELETE"
    /\ last.status = 200
    /\ sleep_logs # {}
    /\ Len(history) >= 2

\* C2: every row of sleep_logs holds two times that parse and the duration
\* between them, whatever duration the request carried.
C2_DurationRecomputed ==
    \A r \in sleep_logs :
        /\ strptime(r.sleep_time).ok
        /\ strptime(r.wake_time).ok
        /\ r.duration = Elapsed(strptime(r.sleep_time), strptime(r.wake_time))

\* A create has stored a row whose duration is not the one the client sent.
C2_Witness ==
    /\ last.method = "POST"
    /\ last.status = 200
    /\ \E r \in sleep_logs :
          /\ r.id + 1 = NewId(sleep_logs)
          /\ r.sleep_time = last.arg.sleep_time
          /\ r.duration # last.arg.duration

\* C3: a PUT /sleep_logs/{log_id} for an id in no row answers 404,
\* "Sleep log not found", and leaves sleep_logs unchanged.
C3_UpdateMissingIs404 ==
    [][\A id \in Ids :
          (/\ last'.method = "PUT"
           /\ last'.path = <<sleep_logs_, str(id)>>
           /\ ~LogLive(id))
          => /\ last'.status = 404
             /\ last'.detail = "Sleep log not found"
             /\ sleep_logs' = sleep_logs]_vars

\* C4: a create, or an update of an existing id, whose sleep_time or
\* wake_time does not parse is answered with a 4xx status and changes no row.
C4_UnparsableIsClientError ==
    [][((\/ last'.method = "POST" /\ last'.path = <<sleep_logs_>>
         \/ \E id \in Ids : /\ last'.method = "PUT"
                            /\ last'.path = <<sleep_logs_, str(id)>>
                            /\ LogLive(id))
        /\ ~Parses(last'.arg))
       => /\ last'.status \in 400..499
          /\ sleep_logs' = sleep_logs]_vars

\* C5: the monthly goal evaluation answers, for every year and every month
\* from 1 to 12, with a message and both totals, total_required being
\* hours_per_night times the calendar days of the month, and writes nothing.
C5_GoalForEveryMonth ==
    [][(/\ last'.method = "POST"
        /\ last'.path = <<sleep_goals_, monthly_sleep_goal_>>
        /\ last'.arg.month \in 1..12)
       => /\ last'.status = 200
          /\ DOMAIN last'.result =
                {"message", "total_logged_sleep", "total_required_sleep"}
          /\ last'.result.total_required_sleep =
                60 * last'.arg.hours_per_night
                   * DaysInMonth(last'.arg.year, last'.arg.month)
          /\ UNCHANGED <<sleep_logs, history, sleep_recommendations,
                         recommendation_history>>]_vars

\* C6: with sleep_logs empty, GET /sleep_logs/average_duration,
\* /sleep_logs/longest_sleep and /sleep_logs/shortest_sleep are answered by
\* the aggregate endpoints, with the value 0 under average_sleep_duration,
\* longest_sleep_duration and shortest_sleep_duration.
C6_AggregatesOfNoLogs ==
    (sleep_logs = {} /\ last.method = "GET" /\ Len(last.path) = 2
        /\ last.path[1] = sleep_logs_)
    => /\ last.path[2] = average_duration_
          => /\ last.status = 200
             /\ DOMAIN last.result = {"average_sleep_duration"}
             /\ last.result.average_sleep_duration.num = 0
       /\ last.path[2] = longest_sleep_
          => /\ last.status = 200
             /\ DOMAIN last.result = {"longest_sleep_duration"}
             /\ last.result.longest_sleep_duration = 0
       /\ last.path[2] = shortest_sleep_
          => /\ last.status = 200
             /\ DOMAIN last.result = {"shortest_sleep_duration"}
             /\ last.result.shortest_sleep_duration = 0

\* C7: a DELETE /recommendations/{recommendation_id} for an id in no row
\* answers 404, "Recommendation not found", and leaves sleep_recommendations
\* and recommendation_history unchanged.
C7_DeleteMissingRecommendationIs404 ==
    [][\A id \in Ids :
          (/\ last'.method = "DELETE"
           /\ last'.path = <<recommendations_, str(id)>>
           /\ ~\E r \in sleep_recommendations : r.id = id)
          => /\ last'.status = 404
             /\ last'.detail = "Recommendation not found"
             /\ UNCHANGED <<sleep_recommendations, recommendation_history>>]_vars

\* Dates asked for, each next to dates it is a prefix of.
DatePrefixes == {<<"2">>,
                 <<"2","0","2","4","-","0">>,
                 <<"2","0","2","4","-","0","_">>,
                 <<"2","0","2","4","-","0","2","-","2","8">>,
                 <<"2","0","2","4","-","0","2","-","2","8"," ","2","2",":","0">>,
                 <<"2","0","2","4","-","0","2","-","2","8"," ","2","2",":","0","0">>,
                 <<"2","0","2","4","-","3">>}

\* C8: whenever p is a prefix of q, every row GET /sleep_logs/{q} returns is
\* returned by GET /sleep_logs/{p}.
C8_PrefixMonotonic ==
    \A p \in DatePrefixes, q \in DatePrefixes :
        (p # q /\ IsPrefix(p, q))
        => Elems(get_sleep_logs_by_date(q).result.rows)
              \subseteq Elems(get_sleep_logs_by_date(p).result.rows)

\* GET /sleep_logs/2024-02-28 has returned some rows and not all of them,
\* while every row starts with 2024.
C8_Witness ==
    /\ last.method = "GET"
    /\ last.path = <<sleep_logs_, <<"2","0","2","4","-","0","2","-","2","8">>>>
    /\ last.status = 200
    /\ last.result.rows # <<>>
    /\ Len(last.result.rows) < Cardinality(sleep_logs)
    /\ Elems(get_sleep_logs_by_date(<<"2","0","2","4">>).result.rows) = sleep_logs

\* C9: a sleep-log delete that ends in an error response has changed neither
\* sleep_logs nor history, and a delete adds to history only the row it
\* removes: of two concurrent deletes of one log, one entry, not two.
C9_FailedDeleteChangesNothing ==
    \A w \in Workers :
        workers[w].pc \in {"check", "except", "finally"}
        => /\ workers[w].archived = workers[w].removed
           /\ (workers[w].pc = "finally" /\ workers[w].status # 200)
                 => workers[w].archived = 0

\* C10: no connection outlives the request that opened it.
C10_ConnectionsClosed ==
    open_connections = IF SingleProcess THEN 0 ELSE Cardinality(Busy)

====
